---- MODULE Spec2Model ----
(***************************************************************************)
(* Black-Scholes-Merton pricing engine and implied-volatility bisection of *)
(* Model/OptionsPricing.py.                                                *)
(*                                                                         *)
(* Floats are modelled in fixed point.  Prices, rates, times, volatilities *)
(* handed to the pricing functions and the values they return are integers *)
(* in units of 1/ONE.  The bisection bounds Low_bound, Up_bound and Mid    *)
(* are integers in units of 1/SigOne, a unit in which ACCURACY, IV_UP_BOUND*)
(* and every midpoint the loop can form are exact.  numpy/scipy functions  *)
(* (log, exp, sqrt, norm.cdf) are computed to the precision of ONE.        *)
(***************************************************************************)
EXTENDS Integers, Sequences, FiniteSets, TLC

\* ------------------------------------------------------------------------
\* Float representation
\* ------------------------------------------------------------------------

\* One unit of a float value: 1.0 is ONE.
ONE == 1000000

\* nan (sqrt of a negative number, 0/0): no finite value is this small.
NaN == -2000000000

\* Magnitude standing for every d1 of at least 9 in absolute value, +-inf
\* included: norm.cdf is 0 or 1 to the precision of ONE from 5 on, and
\* d2 = d1 - sigma*sqrt(t) with sigma*sqrt(t) <= 2 stays beyond 5.
DCap == 9 * ONE

Abs(a) == IF a < 0 THEN -a ELSE a

Sgn(a) == IF a < 0 THEN -1 ELSE IF a > 0 THEN 1 ELSE 0

Max(a, b) == IF a >= b THEN a ELSE b

\* a / n for an integer n > 0, rounded toward zero.
TDiv(a, n) == Sgn(a) * (Abs(a) \div n)

\* a * b of two floats, rounded toward zero, without leaving 32 bits.
MulFix(a, b) ==
    LET x  == Abs(a)
        y  == Abs(b)
        xh == x \div 1000
        xl == x % 1000
        yh == y \div 1000
        yl == y % 1000
    IN  Sgn(a) * Sgn(b)
          * (xh * yh + (xh * yl + xl * yh + (xl * yl) \div 1000) \div 1000)

\* Decimal long division: the quotient q extended by n more digits.
RECURSIVE DivDigits(_, _, _, _)
DivDigits(q, rem, b, n) ==
    IF n = 0 THEN q
    ELSE DivDigits(q * 10 + (rem * 10) \div b, (rem * 10) % b, b, n - 1)

\* a / b of two floats (b # 0), rounded toward zero.
DivFix(a, b) ==
    LET x == Abs(a)
        y == Abs(b)
    IN  Sgn(a) * Sgn(b) * DivDigits(x \div y, x % y, y, 6)

\* a - b, a * b of two floats with nan propagated.
FSub(a, b) == IF a = NaN \/ b = NaN THEN NaN ELSE a - b

FMul(a, b) == IF a = NaN \/ b = NaN THEN NaN ELSE MulFix(a, b)

FNeg(a) == IF a = NaN THEN NaN ELSE -a

\* ------------------------------------------------------------------------
\* numpy / scipy
\* ------------------------------------------------------------------------

RECURSIVE SqrtIter(_, _, _)
SqrtIter(x, v, n) ==
    IF n = 0 THEN v ELSE SqrtIter(x, (v + DivFix(x, v)) \div 2, n - 1)

\* np.sqrt: nan for a negative argument, Newton's iteration otherwise.
np_sqrt(x) ==
    IF x < 0 THEN NaN ELSE IF x = 0 THEN 0 ELSE SqrtIter(x, ONE, 12)

RECURSIVE LogSeries(_, _, _)
LogSeries(term, z2, n) ==
    IF n = 8 THEN 0
    ELSE TDiv(term, 2 * n + 1) + LogSeries(MulFix(term, z2), z2, n + 1)

\* np.log for y > 0 near 1: 2 * atanh((y - 1) / (y + 1)).
np_log(y) ==
    LET z == DivFix(y - ONE, y + ONE)
    IN  2 * LogSeries(z, MulFix(z, z), 0)

RECURSIVE ExpSeries(_, _, _)
ExpSeries(term, x, n) ==
    IF n = 12 THEN 0
    ELSE term + ExpSeries(TDiv(MulFix(term, x), n), x, n + 1)

\* np.exp for |x| <= 1: the Taylor series.
np_exp(x) == ExpSeries(ONE, x, 1)

\* norm.cdf and norm.pdf at 0.0, 0.1, ..., 5.0.
CdfTable ==
    << 500000, 539828, 579260, 617911, 655422, 691462, 725747, 758036,
       788145, 815940, 841345, 864334, 884930, 903200, 919243, 933193,
       945201, 955435, 964070, 971283, 977250, 982136, 986097, 989276,
       991802, 993790, 995339, 996533, 997445, 998134, 998650, 999032,
       999313, 999517, 999663, 999767, 999841, 999892, 999928, 999952,
       999968, 999979, 999987, 999991, 999995, 999997, 999998, 999999,
       999999, 1000000, 1000000 >>

PdfTable ==
    << 398942, 396953, 391043, 381388, 368270, 352065, 333225, 312254,
       289692, 266085, 241971, 217852, 194186, 171369, 149727, 129518,
       110921, 94049, 78950, 65616, 53991, 43984, 35475, 28327,
       22395, 17528, 13583, 10421, 7915, 5953, 4432, 3267,
       2384, 1723, 1232, 873, 612, 425, 292, 199,
       134, 89, 59, 39, 25, 16, 10, 6,
       4, 2, 1 >>

\* norm.cdf for x >= 0: third-order Taylor expansion about the nearest
\* table point x0, cdf(x0) + pdf(x0) * (h - x0 h^2 / 2 + (x0^2 - 1) h^3 / 6).
CdfPos(x) ==
    IF x >= 5 * ONE THEN ONE
    ELSE LET i  == (x + 50000) \div 100000
             x0 == i * 100000
             h  == x - x0
             h2 == MulFix(h, h)
             h3 == MulFix(h2, h)
             p  == h - TDiv(MulFix(x0, h2), 2)
                     + TDiv(MulFix(MulFix(x0, x0) - ONE, h3), 6)
         IN  CdfTable[i + 1] + MulFix(PdfTable[i + 1], p)

\* scipy.stats.norm.cdf.
norm_cdf(x) ==
    IF x = NaN THEN NaN
    ELSE IF x < 0 THEN ONE - CdfPos(-x)
    ELSE CdfPos(x)

\* ------------------------------------------------------------------------
\* Config
\* ------------------------------------------------------------------------

TRADING_DAYS == 252

\* One unit of a bisection bound: 1.0 is SigOne, so that ACCURACY is 2^15
\* units and every midpoint of the (at most 15) halvings is an integer.
SigOne == 10000 * 32768

ACCURACY == SigOne \div 10000

IV_UP_BOUND == 2 * SigOne

\* A bisection bound as the float handed to premium (SigOne / ONE = 8192 / 25).
SigToFix(x) == (x \div 8192) * 25 + ((x % 8192) * 25) \div 8192

\* ------------------------------------------------------------------------
\* Option types: Python strings, as sequences of characters
\* ------------------------------------------------------------------------

CallNames ==
    { <<"C", "a", "l", "l">>, <<"c", "a", "l", "l">>, <<"C">>, <<"c">> }

PutNames ==
    { <<"P", "u", "t">>, <<"p", "u", "t">>, <<"P">>, <<"p">> }

\* Mutation of IsCall: 'c' missing from the list.
IsCall_NoLower(option_type) == option_type \in CallNames \ { <<"c">> }

\* option_type in ['Call', 'call', 'C', 'c']
IsCall(option_type) == option_type \in CallNames

\* option_type in ['Put', 'put', 'P', 'p']
IsPut(option_type) == option_type \in PutNames

\* ------------------------------------------------------------------------
\* Outcome of a call: the exception raised ("" for none), the value
\* returned (<<>> for none) and the times t at which d1 was evaluated.
\* ------------------------------------------------------------------------

ValueError == "ValueError: Option type must be either Call or Put"

OutOfBounds ==
    "Exception: Error! Implied Volatility is not in the range of 0 to 2. Please check premium input."

Returns(v, ts) == [exc |-> "", ret |-> <<v>>, d1_t |-> ts]

Raises(e, ts) == [exc |-> e, ret |-> <<>>, d1_t |-> ts]

\* a - b of two calls, a evaluated first; an exception of either propagates.
Difference(a, b) ==
    IF a.exc # "" THEN a
    ELSE IF b.exc # "" THEN Raises(b.exc, a.d1_t \cup b.d1_t)
    ELSE Returns(FSub(a.ret[1], b.ret[1]), a.d1_t \cup b.d1_t)

\* ------------------------------------------------------------------------
\* BlackScholesModel
\* ------------------------------------------------------------------------

\* (np.log(s/k) + (r + sigma ** 2 / 2) * t) / (sigma * np.sqrt(t))
d1(s, k, t, r, sigma) ==
    LET num  == np_log(DivFix(s, k)) + MulFix(r + MulFix(sigma, sigma) \div 2, t)
        root == np_sqrt(t)
        den  == MulFix(sigma, root)
    IN  IF root = NaN THEN NaN
        ELSE IF den = 0
             THEN IF num = 0 THEN NaN ELSE Sgn(num) * DCap
        ELSE IF Abs(num) \div Abs(den) >= 9 THEN Sgn(num) * Sgn(den) * DCap
        ELSE DivFix(num, den)

\* self.d1(s, k, t, r, sigma) - sigma * np.sqrt(t)
d2(s, k, t, r, sigma) ==
    FSub(d1(s, k, t, r, sigma), FMul(sigma, np_sqrt(t)))

\* Mutation of premium_expiry: the payoff without max(..., 0).
premium_expiry_NoFloor(s, k, option_type) ==
    IF IsCall(option_type) THEN Returns(s - k, {})
    ELSE IF IsPut(option_type) THEN Returns(k - s, {})
    ELSE Raises(ValueError, {})

\* The t == 0 branch of premium.
premium_expiry(s, k, option_type) ==
    IF IsCall(option_type) THEN Returns(Max(s - k, 0), {})
    ELSE IF IsPut(option_type) THEN Returns(Max(k - s, 0), {})
    ELSE Raises(ValueError, {})

premium(s, k, t, r, sigma, option_type) ==
    IF t = 0 THEN premium_expiry(s, k, option_type)
    ELSE LET disc == MulFix(k, np_exp(-MulFix(r, t)))
         IN  IF IsCall(option_type)
             THEN Returns(FSub(FMul(s, norm_cdf(d1(s, k, t, r, sigma))),
                               FMul(disc, norm_cdf(d2(s, k, t, r, sigma)))),
                          {t})
             ELSE IF IsPut(option_type)
             THEN Returns(FSub(FMul(disc, norm_cdf(FNeg(d2(s, k, t, r, sigma)))),
                               FMul(s, norm_cdf(FNeg(d1(s, k, t, r, sigma))))),
                          {t})
             ELSE Raises(ValueError, {})

\* Mutation of delta: every type that is not a Call taken as a Put.
delta_DefaultPut(s, k, t, r, sigma, option_type) ==
    IF IsCall(option_type)
    THEN Returns(norm_cdf(d1(s, k, t, r, sigma)), {t})
    ELSE Returns(FSub(norm_cdf(d1(s, k, t, r, sigma)), ONE), {t})

delta(s, k, t, r, sigma, option_type) ==
    IF IsCall(option_type)
    THEN Returns(norm_cdf(d1(s, k, t, r, sigma)), {t})
    ELSE IF IsPut(option_type)
    THEN Returns(FSub(norm_cdf(d1(s, k, t, r, sigma)), ONE), {t})
    ELSE Raises(ValueError, {})

gamma_one_percent(s, k, t, r, sigma, option_type) ==
    Difference(delta(MulFix(s, 1005000), k, t, r, sigma, option_type),
               delta(MulFix(s, 995000), k, t, r, sigma, option_type))

vega_one_percent(s, k, t, r, sigma, option_type) ==
    Difference(premium(s, k, t, r, sigma + 5000, option_type),
               premium(s, k, t, r, sigma - 5000, option_type))

theta_one_day(s, k, t, r, sigma, option_type) ==
    Difference(premium(s, k, t - ONE \div TRADING_DAYS, r, sigma, option_type),
               premium(s, k, t, r, sigma, option_type))

rho_one_percent(s, k, t, r, sigma, option_type) ==
    Difference(premium(s, k, t, r + 5000, sigma, option_type),
               premium(s, k, t, r - 5000, sigma, option_type))

\* ------------------------------------------------------------------------
\* calc_implied_volatility
\* ------------------------------------------------------------------------

\* x * y < 0 of two floats.
ProductNegative(x, y) == Sgn(x) * Sgn(y) < 0

\* Mutation of BracketCheck: <= 0 for < 0.
BracketCheck_OrZero(fLow, fUp) == Sgn(fLow) * Sgn(fUp) <= 0

\* The condition of the if statement, on the two factors of its product.
BracketCheck(fLow, fUp) == ProductNegative(fLow, fUp)

\* Mutation of LoopCond: the loop runs until the bounds meet.
LoopCond_NoTolerance(Up, Low) == (Up - Low) \div 2 > 0

\* The condition of the while loop.
LoopCond(Up, Low) == (Up - Low) \div 2 >= ACCURACY

\* Mid = (Up_bound + Low_bound)/2.
MidPoint(Up, Low) == (Up + Low) \div 2

\* Mutation of ImpVol: the sum not halved.
ImpVol_NoHalf(Up, Low) == Up + Low

\* ImpVol = (Up_bound + Low_bound)/2.
ImpVol(Up, Low) == (Up + Low) \div 2

\* Mutation of Bisect: the first two branches move the wrong bound.
Bisect_Swapped(fMid, fLow, fUp, Mid, Low, Up) ==
    IF ProductNegative(fMid, fLow)
    THEN [Up |-> Up, Low |-> Mid, branch |-> "if"]
    ELSE IF ProductNegative(fMid, fUp)
    THEN [Up |-> Mid, Low |-> Low, branch |-> "elif"]
    ELSE [Up |-> Mid, Low |-> Mid, branch |-> "else"]

\* Mutation of Bisect: the else branch sets Up_bound only.
Bisect_HalfCollapse(fMid, fLow, fUp, Mid, Low, Up) ==
    IF ProductNegative(fMid, fLow)
    THEN [Up |-> Mid, Low |-> Low, branch |-> "if"]
    ELSE IF ProductNegative(fMid, fUp)
    THEN [Up |-> Up, Low |-> Mid, branch |-> "elif"]
    ELSE [Up |-> Mid, Low |-> Low, branch |-> "else"]

\* The body of the while loop after Mid: the bounds it leaves, and the
\* branch taken, from fMid, fLow, fUp = premium at Mid, Low_bound, Up_bound
\* minus the target premium.
Bisect(fMid, fLow, fUp, Mid, Low, Up) ==
    IF ProductNegative(fMid, fLow)
    THEN [Up |-> Mid, Low |-> Low, branch |-> "if"]
    ELSE IF ProductNegative(fMid, fUp)
    THEN [Up |-> Up, Low |-> Mid, branch |-> "elif"]
    ELSE [Up |-> Mid, Low |-> Mid, branch |-> "else"]

\* ------------------------------------------------------------------------
\* Inputs
\* ------------------------------------------------------------------------

MaxSpotIdx == 2

MaxSigma0Idx == 2

Spots == { (80 + 20 * i) * ONE : i \in 0..MaxSpotIdx }

Strikes == { 100 * ONE }

\* Expiry, one trading day, a quarter, a year.
Times == { 0, ONE \div TRADING_DAYS, ONE \div 4, ONE }

Rates == { 0, ONE \div 10 }

Sigmas == { ONE \div 5, ONE }

OptionTypes ==
    CallNames \cup PutNames
      \cup { <<"C", "A", "L", "L">>, <<"P", "U", "T">>,
             <<"c", "A", "l", "l">>,
             <<"S", "t", "r", "a", "d", "d", "l", "e">> }

\* Times to maturity of the implied-volatility queries: expiry, a quarter,
\* a year.
QueryTimes == { 0, ONE \div 4, ONE }

\* Option types of the implied-volatility queries.
QueryTypes ==
    { <<"C", "a", "l", "l">>, <<"P", "u", "t">>, <<"p">>,
      <<"S", "t", "r", "a", "d", "d", "l", "e">> }

\* Volatilities a target premium is generated from, as bisection bounds:
\* 0.001, 0.301, 0.601, ... and the first midpoint of the bisection.
Sigma0s ==
    { SigOne \div 1000 + i * 3 * (SigOne \div 10) : i \in 0..MaxSigma0Idx }
      \cup { (ACCURACY + IV_UP_BOUND) \div 2 }

\* Target premiums given as such: the least the input form accepts, and
\* one above every price.
Premiums == { ONE \div 100, 300 * ONE }

\* ------------------------------------------------------------------------
\* State
\* ------------------------------------------------------------------------

VARIABLES
    pc,          \* "idle", "loop" (at the while condition), "done"
    fn,          \* the function called
    args,        \* its arguments
    sigma0,      \* the volatility premium_arg was generated from, 0 if none
    Low_bound,
    Up_bound,
    Mid,
    branch,      \* branch taken by the last loop iteration, "" before
    iters,       \* loop iterations completed
    exc,         \* exception raised, "" if none
    ret,         \* <<value returned>>, <<>> if none
    d1_t         \* times t at which d1 was evaluated

vars == << pc, fn, args, sigma0, Low_bound, Up_bound, Mid, branch, iters,
           exc, ret, d1_t >>

NoArgs == [s |-> 0, k |-> 0, t |-> 0, r |-> 0, x |-> 0, option_type |-> <<>>]

Init ==
    /\ pc = "idle"
    /\ fn = ""
    /\ args = NoArgs
    /\ sigma0 = 0
    /\ Low_bound = 0
    /\ Up_bound = 0
    /\ Mid = 0
    /\ branch = ""
    /\ iters = 0
    /\ exc = ""
    /\ ret = <<>>
    /\ d1_t = {}

\* A call of one of the six methods of BlackScholesModel; x is sigma.
Finish(name, a, out) ==
    /\ pc' = "done"
    /\ fn' = name
    /\ args' = a
    /\ exc' = out.exc
    /\ ret' = out.ret
    /\ d1_t' = out.d1_t
    /\ UNCHANGED << sigma0, Low_bound, Up_bound, Mid, branch, iters >>

PricingArgs ==
    [s : Spots, k : Strikes, t : Times, r : Rates, x : Sigmas,
     option_type : OptionTypes]

Call_premium ==
    /\ pc = "idle"
    /\ \E a \in PricingArgs :
          Finish("premium", a,
                 premium(a.s, a.k, a.t, a.r, a.x, a.option_type))

Call_delta ==
    /\ pc = "idle"
    /\ \E a \in PricingArgs :
          Finish("delta", a, delta(a.s, a.k, a.t, a.r, a.x, a.option_type))

Call_gamma_one_percent ==
    /\ pc = "idle"
    /\ \E a \in PricingArgs :
          Finish("gamma_one_percent", a,
                 gamma_one_percent(a.s, a.k, a.t, a.r, a.x, a.option_type))

Call_vega_one_percent ==
    /\ pc = "idle"
    /\ \E a \in PricingArgs :
          Finish("vega_one_percent", a,
                 vega_one_percent(a.s, a.k, a.t, a.r, a.x, a.option_type))

Call_theta_one_day ==
    /\ pc = "idle"
    /\ \E a \in PricingArgs :
          Finish("theta_one_day", a,
                 theta_one_day(a.s, a.k, a.t, a.r, a.x, a.option_type))

Call_rho_one_percent ==
    /\ pc = "idle"
    /\ \E a \in PricingArgs :
          Finish("rho_one_percent", a,
                 rho_one_percent(a.s, a.k, a.t, a.r, a.x, a.option_type))

\* premium(s,k,t,r,x,option_type) - premium_arg, x a bisection bound, for
\* the arguments a of a calc_implied_volatility call with a valid type.
f(a, x) ==
    premium(a.s, a.k, a.t, a.r, SigToFix(x), a.option_type).ret[1] - a.x

\* The target premiums of the queries: given as such, or generated from a
\* volatility sg0 when the option type is one premium accepts.
Targets(s, k, t, r, option_type) ==
    { [x |-> p, sigma0 |-> 0] : p \in Premiums }
      \cup { [x |-> premium(s, k, t, r, SigToFix(sg0), option_type).ret[1],
              sigma0 |-> sg0] :
             sg0 \in IF IsCall(option_type) \/ IsPut(option_type)
                     THEN Sigma0s ELSE {} }

\* calc_implied_volatility up to the first evaluation of the while
\* condition; x is the premium argument.
IV_Start ==
    /\ pc = "idle"
    /\ \E s \in Spots, k \in Strikes, t \in QueryTimes, r \in Rates,
          option_type \in QueryTypes :
        \E tg \in Targets(s, k, t, r, option_type) :
          LET a == [s |-> s, k |-> k, t |-> t, r |-> r, x |-> tg.x,
                    option_type |-> option_type]
              first == premium(s, k, t, r, SigToFix(ACCURACY), option_type)
          IN  /\ fn' = "calc_implied_volatility"
              /\ args' = a
              /\ sigma0' = tg.sigma0
              /\ Low_bound' = ACCURACY
              /\ Up_bound' = IV_UP_BOUND
              /\ d1_t' = first.d1_t
              /\ UNCHANGED << Mid, branch, iters >>
              /\ IF first.exc # ""
                 THEN pc' = "done" /\ exc' = first.exc /\ ret' = <<>>
                 ELSE IF BracketCheck(f(a, ACCURACY), f(a, IV_UP_BOUND))
                 THEN pc' = "loop" /\ exc' = "" /\ ret' = <<>>
                 ELSE pc' = "done" /\ exc' = OutOfBounds /\ ret' = <<>>

\* One iteration of the while loop.
IV_Step ==
    /\ pc = "loop"
    /\ LoopCond(Up_bound, Low_bound)
    /\ LET m   == MidPoint(Up_bound, Low_bound)
           new == Bisect(f(args, m), f(args, Low_bound), f(args, Up_bound),
                         m, Low_bound, Up_bound)
       IN  /\ Mid' = m
           /\ Up_bound' = new.Up
           /\ Low_bound' = new.Low
           /\ branch' = new.branch
    /\ iters' = iters + 1
    /\ UNCHANGED << pc, fn, args, sigma0, exc, ret, d1_t >>

\* The loop exits: ImpVol = (Up_bound + Low_bound)/2 is returned.
IV_Return ==
    /\ pc = "loop"
    /\ ~LoopCond(Up_bound, Low_bound)
    /\ pc' = "done"
    /\ ret' = << ImpVol(Up_bound, Low_bound) >>
    /\ UNCHANGED << fn, args, sigma0, Low_bound, Up_bound, Mid, branch,
                    iters, exc, d1_t >>

Next ==
    \/ Call_premium
    \/ Call_delta
    \/ Call_gamma_one_percent
    \/ Call_vega_one_percent
    \/ Call_theta_one_day
    \/ Call_rho_one_percent
    \/ IV_Start
    \/ IV_Step
    \/ IV_Return

Spec == Init /\ [][Next]_vars

\* ------------------------------------------------------------------------
\* Properties
\* ------------------------------------------------------------------------

IVCall == fn = "calc_implied_volatility"

Call == <<"C", "a", "l", "l">>

Put == <<"P", "u", "t">>

\* The spellings of Call and of Put.
CallSpellings == { Call, <<"c", "a", "l", "l">>, <<"C">>, <<"c">> }

PutSpellings == { Put, <<"p", "u", "t">>, <<"P">>, <<"p">> }

Accepted(option_type) == option_type \in CallSpellings \cup PutSpellings

\* A string with its upper-case letters replaced by lower-case ones.
LowerChar(c) ==
    CASE c = "A" -> "a" [] c = "C" -> "c" [] c = "D" -> "d" [] c = "E" -> "e"
      [] c = "L" -> "l" [] c = "P" -> "p" [] c = "R" -> "r" [] c = "S" -> "s"
      [] c = "T" -> "t" [] c = "U" -> "u" [] OTHER -> c

Lower(str) == [i \in 1..Len(str) |-> LowerChar(str[i])]

\* The call in the state, made again with another option type.
Again(option_type) ==
    IF fn = "premium"
    THEN premium(args.s, args.k, args.t, args.r, args.x, option_type)
    ELSE delta(args.s, args.k, args.t, args.r, args.x, option_type)

\* Sign of f(ACCURACY) * f(IV_UP_BOUND) for the query in the state.
fBoundsOpposite ==
    LET fl == f(args, ACCURACY)
        fu == f(args, IV_UP_BOUND)
    IN  (fl < 0 /\ fu > 0) \/ (fl > 0 /\ fu < 0)

\* C1: calc_implied_volatility raises the out-of-bounds error, returning
\* nothing, exactly when f(ACCURACY) * f(IV_UP_BOUND) >= 0; when the product
\* is negative it enters the loop without raising and ends by returning a
\* value.
C1_RaisesIffNotBracketed ==
    (IVCall /\ Accepted(args.option_type)) =>
        /\ pc = "loop" => (fBoundsOpposite /\ exc = "")
        /\ pc = "done" =>
              IF fBoundsOpposite
              THEN exc = "" /\ Len(ret) = 1
              ELSE exc = OutOfBounds /\ ret = <<>>

C1_Witness ==
    /\ IVCall
    /\ pc = "done"
    /\ args.t > 0
    /\ sigma0 = 0
    /\ exc = OutOfBounds
    /\ ~fBoundsOpposite

\* The queries of the round trip: the target premium is the premium at a
\* volatility sigma0 strictly between ACCURACY and IV_UP_BOUND, t > 0.
RoundTrip ==
    /\ IVCall
    /\ pc = "done"
    /\ sigma0 > ACCURACY
    /\ sigma0 < IV_UP_BOUND
    /\ args.t > 0

\* C2 as claimed: every round trip returns a value within 2 * ACCURACY of
\* sigma0.
C2_RoundTripAlways ==
    RoundTrip =>
        /\ exc = ""
        /\ Len(ret) = 1
        /\ Abs(ret[1] - sigma0) <= 2 * ACCURACY

\* C2 amended: a round trip whose target premium lies strictly between the
\* premiums at ACCURACY and at IV_UP_BOUND returns a value that is within
\* 2 * ACCURACY of sigma0 or is the midpoint at which the loop took its
\* else branch; a round trip whose target premium equals the premium at
\* one of the two bounds raises the out-of-bounds error and returns nothing.
C2_RoundTripWhenBracketed ==
    RoundTrip =>
        IF f(args, ACCURACY) < 0 /\ f(args, IV_UP_BOUND) > 0
        THEN /\ exc = ""
             /\ Len(ret) = 1
             /\ \/ Abs(ret[1] - sigma0) <= 2 * ACCURACY
                \/ branch = "else" /\ ret[1] = Mid
        ELSE /\ f(args, ACCURACY) = 0 \/ f(args, IV_UP_BOUND) = 0
             /\ exc = OutOfBounds
             /\ ret = <<>>

C2_Witness ==
    /\ RoundTrip
    /\ exc = ""
    /\ branch # "else"
    /\ iters >= 14
    /\ Len(ret) = 1
    /\ Abs(ret[1] - sigma0) <= 2 * ACCURACY

\* The least n with 2^n >= x.
RECURSIVE CeilLog2(_, _, _)
CeilLog2(x, n, pow) == IF pow >= x THEN n ELSE CeilLog2(x, n + 1, 2 * pow)

\* ceil(log2((IV_UP_BOUND - ACCURACY) / ACCURACY)).
IterationBound ==
    CeilLog2((IV_UP_BOUND - ACCURACY + ACCURACY - 1) \div ACCURACY, 0, 1)

\* C3: a query that passed the bracketing check completes at most
\* ceil(log2((IV_UP_BOUND - ACCURACY) / ACCURACY)) = 15 loop iterations
\* (so no run iterates forever), and once done it has returned a value.
C3_BoundedIterations ==
    (IVCall /\ pc # "idle") =>
        /\ IterationBound = 15
        /\ iters <= IterationBound
        /\ (pc = "done" /\ exc = "") => Len(ret) = 1

C3_Witness ==
    /\ IVCall
    /\ pc = "done"
    /\ exc = ""
    /\ iters = 14
    /\ Len(ret) = 1

\* C4 as claimed: premium and delta treat every string equal to "call" or
\* "c" ignoring case as Call, and every string equal to "put" or "p"
\* ignoring case as Put, without raising.
C4_CaseInsensitive ==
    (pc = "done" /\ fn \in {"premium", "delta"}) =>
        /\ Lower(args.option_type) \in { Lower(Call), <<"c">> } =>
              (exc = "" /\ ret = Again(Call).ret)
        /\ Lower(args.option_type) \in { Lower(Put), <<"p">> } =>
              (exc = "" /\ ret = Again(Put).ret)

\* C4 amended: premium and delta treat exactly the spellings Call, call, C,
\* c as Call and Put, put, P, p as Put, without raising the invalid-option-
\* type error; every other string, other capitalisations such as CALL, PUT
\* or cAll included, raises it.
C4_EightSpellings ==
    (pc = "done" /\ fn \in {"premium", "delta"}) =>
        /\ args.option_type \in CallSpellings =>
              (exc = "" /\ ret = Again(Call).ret)
        /\ args.option_type \in PutSpellings =>
              (exc = "" /\ ret = Again(Put).ret)
        /\ ~Accepted(args.option_type) => (exc = ValueError /\ ret = <<>>)

C4_Witness ==
    /\ pc = "done"
    /\ fn = "delta"
    /\ args.option_type = <<"C", "A", "L", "L">>
    /\ exc = ValueError

Greeks ==
    { "delta", "gamma_one_percent", "vega_one_percent", "theta_one_day",
      "rho_one_percent" }

\* C5 as claimed: a sensitivity function called with a valid option type
\* and t >= 0 evaluates d1 (and so d2) only at times t > 0.
C5_D1OnlyAfterExpiryCheck ==
    (pc = "done" /\ fn \in Greeks /\ Accepted(args.option_type)
       /\ args.t >= 0) =>
        \A time \in d1_t : time > 0

\* C6: each of the six pricing functions, given an option type that is not
\* an accepted spelling, raises the invalid-option-type error and returns
\* nothing, at every t, t = 0 included.
C6_InvalidTypeRaises ==
    (pc = "done" /\ fn \in Greeks \cup {"premium"}
       /\ ~Accepted(args.option_type)) =>
        /\ exc = "ValueError: Option type must be either Call or Put"
        /\ ret = <<>>

C6_Witness ==
    /\ pc = "done"
    /\ fn = "gamma_one_percent"
    /\ args.t = 0
    /\ args.option_type = <<"S", "t", "r", "a", "d", "d", "l", "e">>
    /\ exc = ValueError
    /\ ret = <<>>

\* C7: at t = 0 premium returns max(s - k, 0) for a Call and max(k - s, 0)
\* for a Put whatever r and sigma are, and evaluates neither d1 nor d2.
C7_IntrinsicAtExpiry ==
    (pc = "done" /\ fn = "premium" /\ args.t = 0
       /\ Accepted(args.option_type)) =>
        /\ exc = ""
        /\ d1_t = {}
        /\ args.option_type \in CallSpellings =>
              ret = << IF args.s > args.k THEN args.s - args.k ELSE 0 >>
        /\ args.option_type \in PutSpellings =>
              ret = << IF args.k > args.s THEN args.k - args.s ELSE 0 >>

C7_Witness ==
    /\ pc = "done"
    /\ fn = "premium"
    /\ args.t = 0
    /\ args.option_type = Call
    /\ args.s < args.k
    /\ args.r > 0
    /\ ret = <<0>>

\* C8: whenever the while condition is evaluated, ACCURACY <= Low_bound <=
\* Up_bound <= IV_UP_BOUND and either f(Low_bound) * f(Up_bound) < 0 or
\* Low_bound = Up_bound; every returned implied volatility lies in
\* [ACCURACY, IV_UP_BOUND].
C8_BracketInvariant ==
    IVCall =>
        /\ pc = "loop" =>
              /\ ACCURACY <= Low_bound
              /\ Low_bound <= Up_bound
              /\ Up_bound <= IV_UP_BOUND
              /\ \/ Low_bound = Up_bound
                 \/ f(args, Low_bound) < 0 /\ f(args, Up_bound) > 0
                 \/ f(args, Low_bound) > 0 /\ f(args, Up_bound) < 0
        /\ (pc = "done" /\ exc = "") =>
              (Len(ret) = 1 /\ ACCURACY <= ret[1] /\ ret[1] <= IV_UP_BOUND)

C8_Witness ==
    /\ IVCall
    /\ pc = "loop"
    /\ iters >= 10
    /\ ACCURACY < Low_bound
    /\ Low_bound < Up_bound
    /\ Up_bound < IV_UP_BOUND

\* C9: the else branch of the loop is taken only when f(Mid) = 0; it leaves
\* Up_bound = Low_bound = Mid, the while condition is false at its next
\* evaluation, and the value returned is that Mid.
C9_ElseOnlyAtRoot ==
    (IVCall /\ branch = "else") =>
        /\ f(args, Mid) = 0
        /\ Up_bound = Mid
        /\ Low_bound = Mid
        /\ ~((Up_bound - Low_bound) \div 2 >= ACCURACY)
        /\ pc = "done" => ret = <<Mid>>

C9_Witness ==
    /\ IVCall
    /\ branch = "else"
    /\ pc = "done"
    /\ args.t > 0
    /\ ret = <<Mid>>

\* C10: at t = 0 calc_implied_volatility with a valid option type never
\* returns: whatever s, k, r and the target premium are, it raises the
\* out-of-bounds error.
C10_ExpiryAlwaysOutOfBounds ==
    (IVCall /\ args.t = 0 /\ Accepted(args.option_type)) =>
        /\ pc = "done"
        /\ exc = OutOfBounds
        /\ ret = <<>>

C10_Witness ==
    /\ IVCall
    /\ args.t = 0
    /\ args.option_type = Call
    /\ args.x = Max(args.s - args.k, 0)
    /\ args.s > args.k
    /\ exc = OutOfBounds

====
